---- MODULE Spec2Model ----
(***************************************************************************)
(* passabot: the authenticated polling and notification engine.            *)
(*                                                                         *)
(* Three poll loops live in the repository and are modelled side by side:  *)
(*   "api"      ApiScraper.check_availability       (passabot/scraper_api) *)
(*   "selenium" SeleniumScraper.check_availability  (passabot/scraper_     *)
(*              selenium)                                                  *)
(*   "legacy"   check_availability(po, ...) of main.py                     *)
(* The poll loop is one sequential coroutine; an action of the model is    *)
(* the code between two consecutive suspension points (await) or between   *)
(* two places the claims distinguish. The heartbeat task of main.py runs   *)
(* next to the loop and takes its steps while the loop is suspended.       *)
(* FetchSpec applies the two fetches to one given payload.                 *)
(***************************************************************************)
EXTENDS Integers, Sequences, FiniteSets, TLC

\* ------------------------------------------------------------------ bounds
MaxLoc == 2          \* locations in one list response / rows in one table
MaxStreak == 22      \* cap of notifications_counter (guards of the fetch)
MaxOpenDrivers == 2  \* open browser sessions are counted up to this many

\* ------------------------------------------------------- program constants
MAX_NOTIFICATIONS == 20
HTTP_OK == 200
INTER_CYCLE_WAIT == 60
LOGIN_BACKOFF == 300
CONFIRM_WAIT == 60
TOKEN_WAIT == 10
VIEW_TRIES == 3

NO_SLOTS_TEXT == "La sede non offre al momento disponibilita di appuntamenti."
DATA_CHAT == "data_chat_id"
CONTROL_CHAT == "control_chat_id"
LEGACY_CHAT == "chat_id"

TXT_ENTRY == "str(entry)"
TXT_LOGIN == "Could not login, retrying in 5 minutes..."
TXT_DECODE == "Could not decode the server response, retrying..."
TXT_TABLE == "Could not find the availability table, retrying..."
TXT_RESPONSE_ERROR == "ResponseError"
TXT_HEARTBEAT == "Heartbeat, I'm running!"

\* --------------------------------------------------------------- the inputs
Bundles == {1, 2}               \* credential bundles the service may issue
MANUAL_BUNDLE == [csrf_token |-> 1, session_id |-> 1]
None == "None"
ADate == "2024-05-06T00:00:00"

\* One object of the detail response's "elenco": the composite key is modelled
\* as the tuple its split("||_||", 1) sees, <<prefix, date-time>>.
ElencoObj(t) == [objectKey |-> <<"sede", t>>, totAppuntamenti |-> 1]

\* The slot lists a detail response may hold: none, or two slots out of
\* chronological order.
Elencos == {<<>>, <<ElencoObj(2), ElencoObj(1)>>}

SeqsUpTo(S, n) == UNION {[1..k -> S] : k \in 0..n}

\* A response of the slot-detail endpoint.
DetailResponses ==
    {[status_code |-> 500, decodable |-> TRUE, elenco |-> <<>>],
     [status_code |-> HTTP_OK, decodable |-> FALSE, elenco |-> <<>>]}
    \cup {[status_code |-> HTTP_OK, decodable |-> TRUE, elenco |-> e] :
            e \in Elencos}

\* One location of the list response, with the answer the service gives to the
\* detail call for it. A null date is never followed by a detail call.
ApiLocations ==
    {[dataPrimaDisponibilitaResidenti |-> None,
      detail |-> [status_code |-> HTTP_OK, decodable |-> TRUE, elenco |-> <<>>]]}
    \cup {[dataPrimaDisponibilitaResidenti |-> ADate, detail |-> d] :
            d \in DetailResponses}

\* A response of the location-list endpoint.
ListResponses ==
    {[status_code |-> 500, decodable |-> TRUE, list |-> <<>>],
     [status_code |-> HTTP_OK, decodable |-> FALSE, list |-> <<>>]}
    \cup {[status_code |-> HTTP_OK, decodable |-> TRUE, list |-> l] :
            l \in SeqsUpTo(ApiLocations, MaxLoc)}

\* A rendered table: one date cell per row (cells[1].text).
TableRows == {NO_SLOTS_TEXT, "06/05/2024"}
Tables == SeqsUpTo(TableRows, MaxLoc)

\* ------------------------------------------------- ApiScraper, pure parts
\* datetime.strptime(objectKey.split("||_||", 1)[1], ...)
ParseObjectKey(objectKey) == objectKey[2]

\* list.sort(key=lambda x: x[0]) : stable insertion by the timestamp
RECURSIVE InsertSlot(_, _)
InsertSlot(s, sorted) ==
    IF sorted = <<>> THEN <<s>>
    ELSE IF s[1] < Head(sorted)[1] THEN <<s>> \o sorted
    ELSE <<Head(sorted)>> \o InsertSlot(s, Tail(sorted))

RECURSIVE SortSlots(_)
SortSlots(entries) ==
    IF entries = <<>> THEN <<>>
    ELSE InsertSlot(entries[Len(entries)],
                    SortSlots(SubSeq(entries, 1, Len(entries) - 1)))

\* The slots left in the order of the response.
GetSlotsUnsorted(sede_id, response) ==
    IF response.status_code # HTTP_OK
    THEN [exc |-> "ResponseError", slots |-> <<>>, body |-> <<"detail", sede_id>>]
    ELSE IF ~response.decodable
    THEN [exc |-> "JSONDecodeError", slots |-> <<>>, body |-> <<>>]
    ELSE [exc |-> "none",
          slots |-> [i \in 1..Len(response.elenco) |->
                      <<ParseObjectKey(response.elenco[i].objectKey),
                        response.elenco[i].totAppuntamenti>>],
          body |-> <<>>]

\* ApiScraper._get_slots: the outcome of one detail call.
\*   [exc |-> "ResponseError" | "JSONDecodeError" | "none", slots, body]
GetSlots(sede_id, response) ==
    IF response.status_code # HTTP_OK
    THEN [exc |-> "ResponseError", slots |-> <<>>, body |-> <<"detail", sede_id>>]
    ELSE IF ~response.decodable
    THEN [exc |-> "JSONDecodeError", slots |-> <<>>, body |-> <<>>]
    ELSE [exc |-> "none",
          slots |-> SortSlots([i \in 1..Len(response.elenco) |->
                      <<ParseObjectKey(response.elenco[i].objectKey),
                        response.elenco[i].totAppuntamenti>>]),
          body |-> <<>>]

\* entry["dataPrimaDisponibilitaResidenti"].split("T")[0]
DatePart(iso) == IF iso = ADate THEN "2024-05-06" ELSE iso

\* The test of the loop body of _scrape_availability: a location is skipped
\* when its first-available date is null.
ApiSkips(entry) == entry.dataPrimaDisponibilitaResidenti = None

\* The loop going on after the error: the later locations are asked for too.
AfterDetailErrorGoesOn(list, i, got) ==
    [exc |-> got.exc, entries |-> <<>>, body |-> got.body,
     calls |-> SelectSeq([k \in 1..Len(list) |-> k],
                         LAMBDA k : k >= i /\ ~ApiSkips(list[k]))]

\* What the for loop does once a detail call raised: the exception leaves
\* _scrape_availability, no later location is looked at.
AfterDetailError(list, i, got) ==
    [exc |-> got.exc, entries |-> <<>>, body |-> got.body, calls |-> <<i>>]

\* The for loop of ApiScraper._scrape_availability from location i on, with
\* the entries collected so far; it stops at the first detail call that raises.
\* calls = the locations a detail call was issued for, in order.
RECURSIVE ScrapeFrom(_, _, _)
ScrapeFrom(list, i, entries) ==
    IF i > Len(list)
    THEN [exc |-> "none", entries |-> entries, body |-> <<>>, calls |-> <<>>]
    ELSE IF ApiSkips(list[i]) THEN ScrapeFrom(list, i + 1, entries)
    ELSE LET got == GetSlots(i, list[i].detail) IN
         IF got.exc # "none"
         THEN AfterDetailError(list, i, got)
         ELSE LET rest == ScrapeFrom(list, i + 1, Append(entries,
                    [first_available_date |->
                        DatePart(list[i].dataPrimaDisponibilitaResidenti),
                     slots |-> got.slots,
                     location |-> i,
                     address |-> i]))
              IN [rest EXCEPT !.calls = <<i>> \o @]

\* ApiScraper._scrape_availability: the outcome of one fetch.
ApiScrapeAvailability(response) ==
    IF response.status_code # HTTP_OK
    THEN [exc |-> "ResponseError", entries |-> <<>>, body |-> <<"list">>,
          calls |-> <<>>]
    ELSE IF ~response.decodable
    THEN [exc |-> "JSONDecodeError", entries |-> <<>>, body |-> <<>>,
          calls |-> <<>>]
    ELSE LET got == ScrapeFrom(response.list, 1, <<>>) IN
         IF got.exc # "none" THEN got
         ELSE [got EXCEPT !.entries =
                 SelectSeq(got.entries, LAMBDA e : e.first_available_date # None)]

\* --------------------------------------- SeleniumScraper, pure parts
\* _serialize_availability_table of passabot/scraper_selenium.py builds each
\* row with AvailabilityEntry(first_available_date=, location=, address=,
\* informations=), but the AvailabilityEntry it imports from passabot/common.py
\* has the fields (first_available_date, slots, location, address): the
\* constructor call raises TypeError for the first row, so only a table
\* without rows is serialized.
SerializeAvailabilityTable(table) ==
    IF Len(table) = 0
    THEN [exc |-> "none", entries |-> <<>>]
    ELSE [exc |-> "TypeError", entries |-> <<>>]

\* SeleniumScraper._scrape_availability; table = <<>> when find_element finds
\* no table, <<t>> when the table t is on the page.
SeleniumScrapeAvailability(table) ==
    IF table = <<>>
    THEN [exc |-> "NoSuchElementException", entries |-> <<>>]
    ELSE LET serialized == SerializeAvailabilityTable(table[1]) IN
         IF serialized.exc # "none" THEN serialized
         ELSE [exc |-> "none",
               entries |-> SelectSeq(serialized.entries,
                             LAMBDA e : e.first_available_date # None)]

\* ------------------------------------------------- main.py, pure parts
\* _serialize_availability_table of main.py: the date cell's text is kept as is.
LegacySerializeAvailabilityTable(table) ==
    [i \in 1..Len(table) |->
        [selector |-> i, first_available_date |-> table[i],
         location |-> i, address |-> i, informations |-> "title"]]

\* The filter without its test: every row is kept.
LegacyKeepsAll(entry) == TRUE

\* The filter of PassaportoOnline.check_availability.
LegacyKeeps(entry) == entry.first_available_date # NO_SLOTS_TEXT

\* PassaportoOnline.check_availability
LegacyCheckAvailability(table) ==
    IF table = <<>>
    THEN [exc |-> "NoSuchElementException", entries |-> <<>>]
    ELSE [exc |-> "none",
          entries |-> SelectSeq(LegacySerializeAvailabilityTable(table[1]),
                                LegacyKeeps)]

\* The tables find_element may meet: none, or one of Tables.
TableLookups == {<<>>} \cup {<<t>> : t \in Tables}

\* ------------------------------------------------------------- the state
VARIABLES
    variant,                \* which poll loop runs
    authKind,               \* "manual" | "interactive" | "builtin" (main.py)
    pc,                     \* position of the poll-loop coroutine
    logged_in,              \* the session state: the loop's local logged_in
                            \* (for the page loops, what _is_logged_in() and
                            \* then the login last reported)
    notifications_counter,  \* the loop's local notifications_counter
    cookie,                 \* JSESSIONID installed in the session / driver
    csrf,                   \* X-Csrf-Token header installed (0: none)
    openDrivers,            \* browsers the Authenticator opened and never quit
    available,              \* the list the current cycle's fetch returned
    idx,                    \* position of the for loop over available
    sent,                   \* messages the sink received in this iteration
    saved,                  \* files save_to_file wrote in this iteration
    outcome,                \* how this iteration went so far
    prev,                   \* outcome of the previous iteration
    began,                  \* session state the iteration began with
    fetched,                \* a fetch was issued in this iteration
    authCalled,             \* the authenticator was called in this iteration
    listed,                 \* records in the response just fetched
    eligible,               \* eligible records in the response just fetched
    raised,                 \* the last exception raised in this iteration
    waited,                 \* length of the last wait the loop completed
    escaped,                \* the exception that left the loop ("none")
    detailCalls,            \* locations whose detail call this cycle issued
    loginsInFlight,         \* login() calls entered and not yet left
    quiet,                  \* the cycles since the last data message:
                            \* "none" | "failed" (only failed cycles) |
                            \* "empty" (a fetch that returned no record)
    callerLogin,            \* how the caller's login before the loop went,
                            \* kept until the loop's first iteration is over
    hb,                     \* position of the heartbeat task
    beat,                   \* the message the heartbeat task sent since it
                            \* last woke up
    input,                  \* the list response a fetch is applied to
    apiOut,                 \* what the REST fetch made of input
    pageOut                 \* what the page fetch made of the same locations

vars == <<variant, authKind, pc, logged_in, notifications_counter, cookie,
          csrf, openDrivers, available, idx, sent, saved, outcome, prev, began,
          fetched, authCalled, listed, eligible, raised, waited, escaped,
          detailCalls, loginsInFlight, quiet, callerLogin, hb, beat, input,
          apiOut, pageOut>>

config == <<variant, authKind>>
pure == <<input, apiOut, pageOut>>
\* What no step of the poll loop touches.
aside == <<hb, beat, pure>>
creds == <<cookie, csrf>>
cycle == <<available, idx, sent, saved, fetched, listed, eligible>>
\* What the poll loop owns besides its position, its messages and what it
\* lets escape.
polled == <<logged_in, notifications_counter, creds, openDrivers, available,
            idx, saved, outcome, prev, began, fetched, authCalled, listed,
            eligible, raised, waited, detailCalls, quiet>>

Variants == {"api", "selenium", "legacy"}

Msg(chat, text, entry, file, silent) ==
    [chat_id |-> chat, text |-> text, entry |-> entry, file |-> file,
     disable_notification |-> silent]

\* save_to_file: the file written, named after the moment of writing.
SaveToFile(data) == [path |-> <<"/tmp", "passabot.html">>, data |-> data]

\* Nothing has run yet.
Fresh ==
    /\ logged_in = FALSE
    /\ notifications_counter = 0
    /\ cookie = 0
    /\ csrf = 0
    /\ openDrivers = 0
    /\ available = <<>>
    /\ idx = 1
    /\ sent = <<>>
    /\ saved = <<>>
    /\ outcome = "none"
    /\ prev = "none"
    /\ began = "none"
    /\ fetched = FALSE
    /\ authCalled = FALSE
    /\ listed = 0
    /\ eligible = 0
    /\ raised = "none"
    /\ waited = 0
    /\ escaped = "none"
    /\ detailCalls = <<>>
    /\ loginsInFlight = 0
    /\ quiet = "none"
    /\ callerLogin = "none"
    /\ hb = "off"
    /\ beat = <<>>
    /\ apiOut = <<>>
    /\ pageOut = <<>>

Init ==
    /\ variant \in Variants
    /\ authKind \in (IF variant = "legacy" THEN {"builtin"}
                     ELSE {"manual", "interactive"})
    /\ pc = (IF variant = "legacy" THEN "start" ELSE "caller")
    /\ input = <<>>
    /\ Fresh

\* An exception nobody catches leaves check_availability.
Crash(exc) ==
    /\ pc' = "crashed"
    /\ raised' = exc
    /\ escaped' = exc

\* No exception in this step.
NoRaise == UNCHANGED <<raised, escaped>>

\* ------------------------------------------ DataSource.login, its two ends
\* A login that renews the cookie and keeps the old header.
InstallCredentialsCookieOnly(auth_data) ==
    /\ cookie' = auth_data.session_id
    /\ csrf' = csrf

\* ApiScraper.login / SeleniumScraper.login after authenticator.login()
\* returned auth_data: the API variant stamps the cookie and the header, the
\* page variant injects the cookie only.
InstallCredentials(auth_data) ==
    /\ cookie' = auth_data.session_id
    /\ csrf' = IF variant = "api" THEN auth_data.csrf_token ELSE csrf

\* login() returned True: the loop goes on to the fetch.
LoginReturnsTrue ==
    /\ logged_in' = TRUE
    /\ pc' = "fetch"
    /\ UNCHANGED <<outcome, raised, escaped>>

\* A login that gives up by clearing what was installed.
LoginReturnsFalseClearing ==
    /\ raised' = "NoSuchElementException"
    /\ logged_in' = FALSE
    /\ outcome' = "login_failed"
    /\ pc' = "notify_login"
    /\ cookie' = 0
    /\ csrf' = 0
    /\ UNCHANGED escaped

\* login() returned False (NoSuchElementException was caught).
LoginReturnsFalse ==
    /\ raised' = "NoSuchElementException"
    /\ logged_in' = FALSE
    /\ outcome' = "login_failed"
    /\ pc' = "notify_login"
    /\ UNCHANGED <<creds, escaped>>

\* Authenticator._init_driver: a new browser session.
InitDriver ==
    openDrivers' = IF openDrivers < MaxOpenDrivers THEN openDrivers + 1
                   ELSE openDrivers

\* The outcomes of the part of a login ceremony that runs before the wait for
\* the human confirmation: find_element raises NoSuchElementException,
\* wait.until raises TimeoutException.
CeremonyOutcomes == {"ok", "NoSuchElementException", "TimeoutException"}

\* ------------------------------------------------ the caller of a scraper
\* The two tasks are created: the poll loop is about to run its first line,
\* the heartbeat task its first send.
StartTasks == pc' = "start" /\ hb' = "send"

\* The caller of ApiScraper / SeleniumScraper: one `await scraper.login()`
\* before the loop starts, then check_availability(bot, data_chat_id,
\* control_chat_id) and the heartbeat are started. check_availability takes no
\* session state, so the login's result reaches the loop by no parameter. The
\* login runs before any other task exists and is taken in one step.
CallerLogin ==
    /\ variant \in {"api", "selenium"} /\ pc = "caller"
    /\ IF authKind = "manual"
       THEN /\ InstallCredentials(MANUAL_BUNDLE)
            /\ callerLogin' = "ok"
            /\ StartTasks
            /\ UNCHANGED <<openDrivers, raised, escaped>>
       ELSE \E r \in CeremonyOutcomes \cup {"ValueError"} :
              CASE r = "ok" ->
                     /\ \E b \in Bundles :
                          InstallCredentials([csrf_token |-> b, session_id |-> b])
                     /\ callerLogin' = "ok"
                     /\ StartTasks
                     /\ UNCHANGED <<openDrivers, raised, escaped>>
                [] r = "NoSuchElementException" ->
                     /\ InitDriver
                     /\ callerLogin' = "failed"
                     /\ StartTasks
                     /\ UNCHANGED <<creds, raised, escaped>>
                [] OTHER ->
                     /\ InitDriver
                     /\ Crash(r)
                     /\ UNCHANGED <<creds, callerLogin, hb>>
    /\ UNCHANGED <<config, logged_in, notifications_counter, cycle, outcome,
                   prev, began, authCalled, waited, detailCalls, loginsInFlight,
                   quiet, beat, pure>>

\* ----------------------------------------------------- the loops' start
\* ApiScraper.check_availability, lines 94-95.
ApiStart ==
    /\ variant = "api" /\ pc = "start"
    /\ logged_in' = TRUE
    /\ notifications_counter' = 0
    /\ pc' = "top"
    /\ UNCHANGED <<config, creds, openDrivers, cycle, outcome, prev, began,
                   authCalled, waited, raised, escaped>>
    /\ UNCHANGED <<callerLogin, aside, quiet, detailCalls, loginsInFlight>>

\* SeleniumScraper.check_availability, line 115: _view_locations() runs before
\* the try block. failed = the tries that did not find selectRichiedente,
\* rest = whether the two lookups after the for loop succeed.
SeleniumStart ==
    /\ variant = "selenium" /\ pc = "start"
    /\ \E failed \in 0..VIEW_TRIES, rest \in BOOLEAN :
         IF failed = VIEW_TRIES \/ ~rest
         THEN Crash("NoSuchElementException")
         ELSE pc' = "top" /\ NoRaise
    /\ UNCHANGED <<config, logged_in, notifications_counter, creds, openDrivers,
                   cycle, outcome, prev, began, authCalled, waited>>
    /\ UNCHANGED <<callerLogin, aside, quiet, detailCalls, loginsInFlight>>

\* PassaportoOnline.view_locations of main.py: three failed tries raise
\* TimeoutException, the lookups after the loop NoSuchElementException.
LegacyViewOutcomes == {"ok", "NoSuchElementException", "TimeoutException"}

\* main() of main.py: await po.login(credentials), up to the confirmation wait.
LegacyStart ==
    /\ variant = "legacy" /\ pc = "start"
    /\ \E r \in CeremonyOutcomes :
         IF r = "ok"
         THEN pc' = "main_confirm" /\ NoRaise
              /\ loginsInFlight' = loginsInFlight + 1
         ELSE Crash(r) /\ UNCHANGED loginsInFlight
    /\ UNCHANGED <<config, logged_in, notifications_counter, creds, openDrivers,
                   cycle, outcome, prev, began, authCalled, waited>>
    /\ UNCHANGED <<callerLogin, aside, quiet, detailCalls>>

\* main() of main.py after the wait: the consent click, view_locations(), and
\* the two tasks are created.
LegacyMainConfirm ==
    /\ variant = "legacy" /\ pc = "main_confirm"
    /\ \E click \in {"ok", "NoSuchElementException"}, view \in LegacyViewOutcomes :
         IF click # "ok" THEN Crash(click) /\ UNCHANGED hb
         ELSE IF view # "ok" THEN Crash(view) /\ UNCHANGED hb
         ELSE pc' = "top" /\ NoRaise /\ hb' = "send"
    /\ waited' = CONFIRM_WAIT
    /\ loginsInFlight' = loginsInFlight - 1
    /\ UNCHANGED <<config, logged_in, notifications_counter, creds, openDrivers,
                   cycle, outcome, prev, began, authCalled>>
    /\ UNCHANGED <<callerLogin, beat, pure, quiet, detailCalls>>

\* --------------------------------------------------- the top of the loop
\* The quiet period an iteration leaves behind: over once a data message went
\* out, "empty" once a fetch returned no record, "failed" while the cycles
\* without data messages all ended in an except branch or a failed login.
QuietAfter(how, messages) ==
    CASE how = "none" -> quiet
      [] how = "success" -> IF Len(messages) > 0 THEN "none" ELSE "empty"
      [] OTHER -> IF quiet = "empty" THEN "empty" ELSE "failed"

\* What every iteration starts with: nothing sent, saved or fetched yet.
NewIteration ==
    /\ sent' = <<>>
    /\ saved' = <<>>
    /\ available' = <<>>
    /\ idx' = 1
    /\ fetched' = FALSE
    /\ authCalled' = FALSE
    /\ listed' = 0
    /\ eligible' = 0
    /\ raised' = "none"
    /\ prev' = outcome
    /\ outcome' = "none"
    /\ detailCalls' = <<>>
    /\ quiet' = QuietAfter(outcome, sent)
    /\ callerLogin' = IF outcome = "none" THEN callerLogin ELSE "none"

\* The test dropped: every iteration logs in again.
NeedsLoginAlways(session_ok) == TRUE

\* `if not logged_in` (scraper_api.py line 97), `if self._is_logged_in():
\* return True` (scraper_selenium.py line 91, main.py line 178).
NeedsLogin(session_ok) == ~session_ok

\* ApiScraper.check_availability, line 97.
ApiLoopTop ==
    /\ variant = "api" /\ pc = "top"
    /\ NewIteration
    /\ began' = IF logged_in THEN "LoggedIn" ELSE "LoggedOut"
    /\ pc' = IF NeedsLogin(logged_in) THEN "login" ELSE "fetch"
    /\ UNCHANGED <<config, logged_in, notifications_counter, creds, openDrivers,
                   waited, escaped>>
    /\ UNCHANGED <<aside, loginsInFlight>>

\* SeleniumScraper._refresh_session / PassaportoOnline.refresh_session up to
\* the login: the page is refreshed and the session state is read off the URL;
\* is_logged_in is what the service answers to the refresh.
PageLoopTop ==
    /\ variant \in {"selenium", "legacy"} /\ pc = "top"
    /\ NewIteration
    /\ \E is_logged_in \in BOOLEAN :
         /\ began' = IF is_logged_in THEN "LoggedIn" ELSE "LoggedOut"
         /\ logged_in' = is_logged_in
         /\ pc' = IF NeedsLogin(is_logged_in) THEN "login" ELSE "fetch"
    /\ UNCHANGED <<config, notifications_counter, creds, openDrivers, waited,
                   escaped>>
    /\ UNCHANGED <<aside, loginsInFlight>>

\* ------------------------------------------------------------ the login
\* The login started and left behind: the loop goes on to its fetch.
WhileLoginWaitsFetch == "fetch"

\* Where the loop is while the login it called waits for the confirmation:
\* `logged_in = await self.login()` (scraper_api.py line 98) keeps the loop
\* inside the login until it returns.
WhileLoginWaits == "auth_confirm"

\* ApiScraper.login / SeleniumScraper.login: authenticator.login() is called.
\* ManualAuthenticator returns its bundle; Authenticator opens a browser and
\* runs the ceremony up to `await asyncio.sleep(60)`.
Login ==
    /\ variant \in {"api", "selenium"} /\ pc = "login"
    /\ authCalled' = TRUE
    /\ IF authKind = "manual"
       THEN /\ InstallCredentials(MANUAL_BUNDLE)
            /\ LoginReturnsTrue
            /\ UNCHANGED <<openDrivers, loginsInFlight>>
       ELSE /\ InitDriver
            /\ \E r \in CeremonyOutcomes :
                 CASE r = "ok" ->
                        /\ pc' = WhileLoginWaits
                        /\ loginsInFlight' = loginsInFlight + 1
                        /\ UNCHANGED <<logged_in, creds, outcome, raised, escaped>>
                   [] r = "NoSuchElementException" ->
                        /\ LoginReturnsFalse
                        /\ UNCHANGED loginsInFlight
                   [] OTHER ->
                        /\ Crash(r)
                        /\ UNCHANGED <<logged_in, creds, outcome, loginsInFlight>>
    /\ UNCHANGED <<config, notifications_counter, available, idx, sent, saved,
                   fetched, listed, eligible, prev, began, waited>>
    /\ UNCHANGED <<callerLogin, aside, quiet, detailCalls>>

\* Authenticator.login after the 60 s wait: the consent click, then
\* `await asyncio.sleep(10)`.
AuthConfirm ==
    /\ variant \in {"api", "selenium"} /\ pc = "auth_confirm"
    /\ waited' = CONFIRM_WAIT
    /\ \E r \in {"ok", "NoSuchElementException"} :
         IF r = "ok"
         THEN /\ pc' = "auth_tokens"
              /\ UNCHANGED <<logged_in, creds, outcome, raised, escaped,
                             loginsInFlight>>
         ELSE /\ LoginReturnsFalse
              /\ loginsInFlight' = loginsInFlight - 1
    /\ UNCHANGED <<config, notifications_counter, openDrivers, cycle, prev,
                   began, authCalled>>
    /\ UNCHANGED <<callerLogin, aside, quiet, detailCalls>>

\* driver.quit(): the browser session is released.
QuitDriver == openDrivers' = openDrivers - 1

\* Authenticator.login after the 10 s wait: the tokens are read, the browser
\* is quit and AuthData is returned; DataSource.login installs it.
AuthTokens ==
    /\ variant \in {"api", "selenium"} /\ pc = "auth_tokens"
    /\ waited' = TOKEN_WAIT
    /\ loginsInFlight' = loginsInFlight - 1
    /\ \E r \in {"ok", "NoSuchElementException", "ValueError"} :
         CASE r = "ok" ->
                /\ QuitDriver
                /\ \E b \in Bundles :
                     InstallCredentials([csrf_token |-> b, session_id |-> b])
                /\ LoginReturnsTrue
           [] r = "NoSuchElementException" ->
                /\ LoginReturnsFalse
                /\ UNCHANGED openDrivers
           [] OTHER ->
                /\ Crash(r)
                /\ UNCHANGED <<logged_in, creds, outcome, openDrivers>>
    /\ UNCHANGED <<config, notifications_counter, cycle, prev, began,
                   authCalled>>
    /\ UNCHANGED <<callerLogin, aside, quiet, detailCalls>>

\* PassaportoOnline.refresh_session of main.py: await self.login(credentials),
\* up to the confirmation wait; NoSuchElementException is caught.
LegacyLogin ==
    /\ variant = "legacy" /\ pc = "login"
    /\ authCalled' = TRUE
    /\ \E r \in CeremonyOutcomes :
         CASE r = "ok" ->
                /\ pc' = "auth_confirm"
                /\ loginsInFlight' = loginsInFlight + 1
                /\ UNCHANGED <<logged_in, creds, outcome, raised, escaped>>
           [] r = "NoSuchElementException" ->
                /\ LoginReturnsFalse
                /\ UNCHANGED loginsInFlight
           [] OTHER ->
                /\ Crash(r)
                /\ UNCHANGED <<logged_in, creds, outcome, loginsInFlight>>
    /\ UNCHANGED <<config, notifications_counter, openDrivers, available, idx,
                   sent, saved, fetched, listed, eligible, prev, began, waited>>
    /\ UNCHANGED <<callerLogin, aside, quiet, detailCalls>>

\* refresh_session of main.py after the wait: the consent click and
\* view_locations(); TimeoutException is not caught.
LegacyConfirm ==
    /\ variant = "legacy" /\ pc = "auth_confirm"
    /\ waited' = CONFIRM_WAIT
    /\ loginsInFlight' = loginsInFlight - 1
    /\ \E click \in {"ok", "NoSuchElementException"}, view \in LegacyViewOutcomes :
         CASE click # "ok" \/ view = "NoSuchElementException" -> LoginReturnsFalse
           [] click = "ok" /\ view = "TimeoutException" ->
                /\ Crash(view)
                /\ UNCHANGED <<logged_in, creds, outcome>>
           [] OTHER -> LoginReturnsTrue /\ UNCHANGED creds
    /\ UNCHANGED <<config, notifications_counter, openDrivers, cycle, prev,
                   began, authCalled>>
    /\ UNCHANGED <<callerLogin, aside, quiet, detailCalls>>

\* -------------------------------------------------------- the throttler
\* The reset of line 118 lost: a cycle without records leaves the streak.
UpdateCounterNoReset(counter, n) == IF n = 0 THEN counter ELSE counter + 1

\* ApiScraper.check_availability, lines 117-120.
UpdateCounter(counter, n) == IF n = 0 THEN 0 ELSE counter + 1

\* The threshold missed by one: silent only after the 20th cycle.
DisableNotificationLate(counter) == counter > MAX_NOTIFICATIONS

\* disable_notification of line 127.
DisableNotification(counter) == counter >= MAX_NOTIFICATIONS

\* The flag the data messages of a cycle carry: only ApiScraper passes
\* disable_notification; the other loops leave the sink's default (not silent).
SilenceFlag ==
    IF variant = "api" THEN DisableNotification(notifications_counter) ELSE FALSE

\* The chat the availability messages go to.
DataChat == IF variant = "legacy" THEN LEGACY_CHAT ELSE DATA_CHAT

\* Eligible records of a list response: locations with a date.
ApiEligible(response) ==
    Cardinality({i \in 1..Len(response.list) :
                    response.list[i].dataPrimaDisponibilitaResidenti # None})

\* Rows of a table lookup.
TableRowCount(table) == IF table = <<>> THEN 0 ELSE Len(table[1])

\* Eligible rows of a table lookup: rows whose date cell is not the literal.
TableEligible(table) ==
    IF table = <<>> THEN 0
    ELSE Cardinality({i \in 1..Len(table[1]) : table[1][i] # NO_SLOTS_TEXT})

\* ------------------------------------------------------------- the fetch
\* A fetch returned `entries`: the loop goes to its for loop over them, or to
\* the inter-cycle sleep when there are none.
FetchSucceeds(entries) ==
    /\ available' = entries
    /\ idx' = 1
    /\ outcome' = "success"
    /\ pc' = IF Len(entries) = 0 THEN "sleep" ELSE "send"

\* ApiScraper.check_availability, lines 104-120: _scrape_availability() and
\* the except / else clause up to its first await.
ApiFetch ==
    /\ variant = "api" /\ pc = "fetch"
    /\ fetched' = TRUE
    /\ \E response \in ListResponses :
         LET got == ApiScrapeAvailability(response) IN
         /\ listed' = Len(response.list)
         /\ eligible' = ApiEligible(response)
         /\ detailCalls' = got.calls
         /\ raised' = got.exc
         /\ CASE got.exc = "ResponseError" ->
                   /\ saved' = Append(saved, SaveToFile(got.body))
                   /\ outcome' = "upstream"
                   /\ pc' = "notify_upstream"
                   /\ UNCHANGED <<available, idx, notifications_counter>>
              [] got.exc = "JSONDecodeError" ->
                   /\ outcome' = "malformed"
                   /\ pc' = "notify_malformed"
                   /\ UNCHANGED <<available, idx, notifications_counter, saved>>
              [] OTHER ->
                   /\ Len(got.entries) > 0 => notifications_counter < MaxStreak
                   /\ notifications_counter' =
                        UpdateCounter(notifications_counter, Len(got.entries))
                   /\ FetchSucceeds(got.entries)
                   /\ UNCHANGED saved
    /\ UNCHANGED <<config, logged_in, creds, openDrivers, sent, prev, began,
                   authCalled, waited, escaped>>
    /\ UNCHANGED <<callerLogin, aside, quiet, loginsInFlight>>

\* SeleniumScraper.check_availability, lines 120-127: _scrape_availability();
\* only NoSuchElementException is caught around it.
SeleniumFetch ==
    /\ variant = "selenium" /\ pc = "fetch"
    /\ fetched' = TRUE
    /\ \E table \in TableLookups :
         LET got == SeleniumScrapeAvailability(table) IN
         /\ listed' = TableRowCount(table)
         /\ eligible' = TableEligible(table)
         /\ CASE got.exc = "NoSuchElementException" ->
                   /\ outcome' = "malformed"
                   /\ pc' = "notify_malformed"
                   /\ raised' = got.exc
                   /\ UNCHANGED <<available, idx, escaped>>
              [] got.exc = "none" ->
                   /\ FetchSucceeds(got.entries)
                   /\ NoRaise
              [] OTHER ->
                   /\ Crash(got.exc)
                   /\ UNCHANGED <<available, idx, outcome>>
    /\ UNCHANGED <<config, logged_in, notifications_counter, creds, openDrivers,
                   sent, saved, prev, began, authCalled, waited>>
    /\ UNCHANGED <<callerLogin, aside, quiet, detailCalls, loginsInFlight>>

\* check_availability of main.py, line 194: po.check_availability(); nothing
\* is caught around it.
LegacyFetch ==
    /\ variant = "legacy" /\ pc = "fetch"
    /\ fetched' = TRUE
    /\ \E table \in TableLookups :
         LET got == LegacyCheckAvailability(table) IN
         /\ listed' = TableRowCount(table)
         /\ eligible' = TableEligible(table)
         /\ IF got.exc = "none"
            THEN FetchSucceeds(got.entries) /\ NoRaise
            ELSE Crash(got.exc) /\ UNCHANGED <<available, idx, outcome>>
    /\ UNCHANGED <<config, logged_in, notifications_counter, creds, openDrivers,
                   sent, saved, prev, began, authCalled, waited>>
    /\ UNCHANGED <<callerLogin, aside, quiet, detailCalls, loginsInFlight>>

\* ------------------------------------------------------ the notifications
\* One turn of `for entry in available: await bot.send_message(...)`.
SendEntry ==
    /\ pc = "send"
    /\ sent' = Append(sent, Msg(DataChat, TXT_ENTRY, <<available[idx]>>, <<>>,
                                SilenceFlag))
    /\ idx' = idx + 1
    /\ pc' = IF idx = Len(available) THEN "sleep" ELSE "send"
    /\ UNCHANGED <<config, logged_in, notifications_counter, creds, openDrivers,
                   available, saved, outcome, prev, began, fetched, authCalled,
                   listed, eligible, raised, waited, escaped>>
    /\ UNCHANGED <<callerLogin, aside, quiet, detailCalls, loginsInFlight>>

\* The assignment of line 110 forgotten: the loop stays logged in.
AfterResponseErrorStaysIn == TRUE

\* The session state the loop is left with once the upstream error is reported
\* (scraper_api.py, line 110).
AfterResponseError == FALSE

\* An upstream error that also restarts the streak.
NotifyUpstreamResetting ==
    /\ pc = "notify_upstream"
    /\ sent' = Append(sent, Msg(CONTROL_CHAT, TXT_RESPONSE_ERROR, <<>>,
                                <<saved[Len(saved)].path>>, FALSE))
    /\ logged_in' = AfterResponseError
    /\ notifications_counter' = 0
    /\ pc' = "sleep"
    /\ UNCHANGED <<config, creds, openDrivers, available,
                   idx, saved, outcome, prev, began, fetched, authCalled,
                   listed, eligible, raised, waited, escaped>>
    /\ UNCHANGED <<callerLogin, aside, quiet, detailCalls, loginsInFlight>>

\* ApiScraper.check_availability, lines 108-110: the notice that names the
\* saved file, then logged_in = False.
NotifyUpstream ==
    /\ pc = "notify_upstream"
    /\ sent' = Append(sent, Msg(CONTROL_CHAT, TXT_RESPONSE_ERROR, <<>>,
                                <<saved[Len(saved)].path>>, FALSE))
    /\ logged_in' = AfterResponseError
    /\ pc' = "sleep"
    /\ UNCHANGED <<config, notifications_counter, creds, openDrivers, available,
                   idx, saved, outcome, prev, began, fetched, authCalled,
                   listed, eligible, raised, waited, escaped>>
    /\ UNCHANGED <<callerLogin, aside, quiet, detailCalls, loginsInFlight>>

\* The notice sent to the wrong chat.
MalformedNoticesToData ==
    <<Msg(DATA_CHAT, IF variant = "api" THEN TXT_DECODE ELSE TXT_TABLE,
          <<>>, <<>>, FALSE)>>

\* The notices of scraper_api.py line 112 and scraper_selenium.py line 124.
MalformedNotices ==
    <<Msg(CONTROL_CHAT, IF variant = "api" THEN TXT_DECODE ELSE TXT_TABLE,
          <<>>, <<>>, FALSE)>>

NotifyMalformed ==
    /\ pc = "notify_malformed"
    /\ sent' = sent \o MalformedNotices
    /\ pc' = "sleep"
    /\ UNCHANGED <<config, logged_in, notifications_counter, creds, openDrivers,
                   available, idx, saved, outcome, prev, began, fetched,
                   authCalled, listed, eligible, raised, waited, escaped>>
    /\ UNCHANGED <<callerLogin, aside, quiet, detailCalls, loginsInFlight>>

\* The messages the login-failure branch hands to the sink. ApiScraper and
\* SeleniumScraper await bot.send_message(...); main.py line 199 calls
\* bot.send_message(...) without await, so the coroutine never runs.
LoginNotices ==
    IF variant = "legacy" THEN <<>>
    ELSE <<Msg(CONTROL_CHAT, TXT_LOGIN, <<>>, <<>>, FALSE)>>

NotifyLogin ==
    /\ pc = "notify_login"
    /\ sent' = sent \o LoginNotices
    /\ pc' = "backoff"
    /\ UNCHANGED <<config, logged_in, notifications_counter, creds, openDrivers,
                   available, idx, saved, outcome, prev, began, fetched,
                   authCalled, listed, eligible, raised, waited, escaped>>
    /\ UNCHANGED <<callerLogin, aside, quiet, detailCalls, loginsInFlight>>

\* --------------------------------------------------------------- the waits
\* A backoff that adds to the wait before it.
BackoffGrowing ==
    /\ pc = "backoff"
    /\ waited' = waited + LOGIN_BACKOFF
    /\ pc' = "top"
    /\ UNCHANGED <<config, logged_in, notifications_counter, creds, openDrivers,
                   cycle, outcome, prev, began, authCalled, raised, escaped>>
    /\ UNCHANGED <<callerLogin, aside, quiet, detailCalls, loginsInFlight>>

\* `await asyncio.sleep(60 * 5)`, then `continue` (the API loop) or the end of
\* the else branch (the page loops).
Backoff ==
    /\ pc = "backoff"
    /\ waited' = LOGIN_BACKOFF
    /\ pc' = "top"
    /\ UNCHANGED <<config, logged_in, notifications_counter, creds, openDrivers,
                   cycle, outcome, prev, began, authCalled, raised, escaped>>
    /\ UNCHANGED <<callerLogin, aside, quiet, detailCalls, loginsInFlight>>

\* `await asyncio.sleep(60)` at the end of a cycle.
Sleep ==
    /\ pc = "sleep"
    /\ waited' = INTER_CYCLE_WAIT
    /\ pc' = "top"
    /\ UNCHANGED <<config, logged_in, notifications_counter, creds, openDrivers,
                   cycle, outcome, prev, began, authCalled, raised, escaped>>
    /\ UNCHANGED <<callerLogin, aside, quiet, detailCalls, loginsInFlight>>

\* ------------------------------------------------------ the heartbeat task
\* Both tasks of the TaskGroup are alive.
TasksRunning ==
    /\ hb \in {"send", "sleep"}
    /\ pc \notin {"crashed", "cancelled", "terminated"}

\* The positions at which the poll loop is suspended in an await (a sleep, a
\* bot.send_message): asyncio runs one coroutine at a time, the heartbeat task
\* runs only while the poll loop is suspended.
PollSuspended ==
    pc \in {"auth_confirm", "auth_tokens", "send", "notify_upstream",
            "notify_malformed", "notify_login", "backoff", "sleep"}

\* The chat a caller of ApiScraper / SeleniumScraper hands to the heartbeat.
CallerHeartbeatChat == CONTROL_CHAT

\* The chat send_heartbeat is started with: main() of main.py passes the one
\* chat_id it also passes to check_availability (lines 221-222).
HeartbeatChat ==
    IF variant = "legacy" THEN LEGACY_CHAT ELSE CallerHeartbeatChat

\* A heartbeat that rings.
HeartbeatMessageLoud == Msg(HeartbeatChat, TXT_HEARTBEAT, <<>>, <<>>, FALSE)

\* send_heartbeat, line 205.
HeartbeatMessage == Msg(HeartbeatChat, TXT_HEARTBEAT, <<>>, <<>>, TRUE)

\* send_heartbeat: `await bot.send_message(...)` went through; the task goes
\* to its sleep.
HeartbeatSend ==
    /\ TasksRunning /\ PollSuspended /\ hb = "send"
    /\ beat' = <<HeartbeatMessage>>
    /\ hb' = "sleep"
    /\ UNCHANGED <<config, pc, polled, sent, escaped, loginsInFlight,
                   callerLogin, pure>>

\* The poll-loop coroutine is cancelled: its frame and what was observed of
\* its current iteration are gone; the session's credentials and the browsers
\* left open stay.
PollCancelled ==
    /\ pc' = "cancelled"
    /\ logged_in' = FALSE
    /\ notifications_counter' = 0
    /\ available' = <<>> /\ idx' = 1 /\ sent' = <<>> /\ saved' = <<>>
    /\ outcome' = "none" /\ prev' = "none" /\ began' = "none"
    /\ fetched' = FALSE /\ authCalled' = FALSE
    /\ listed' = 0 /\ eligible' = 0 /\ raised' = "none" /\ waited' = 0
    /\ detailCalls' = <<>> /\ quiet' = "none" /\ callerLogin' = "none"
    /\ loginsInFlight' = 0
    /\ UNCHANGED <<creds, openDrivers>>

\* send_heartbeat: bot.send_message raises; nothing in send_heartbeat catches
\* it, the TaskGroup cancels the poll loop wherever it is suspended.
HeartbeatFails ==
    /\ TasksRunning /\ PollSuspended /\ hb = "send"
    /\ hb' = "failed"
    /\ escaped' = "TelegramError"
    /\ PollCancelled
    /\ UNCHANGED <<config, beat, pure>>

\* send_heartbeat, line 206: `await asyncio.sleep(60 * 60)` is over.
HeartbeatWake ==
    /\ TasksRunning /\ PollSuspended /\ hb = "sleep"
    /\ hb' = "send"
    /\ beat' = <<>>
    /\ UNCHANGED <<config, pc, polled, sent, escaped, loginsInFlight,
                   callerLogin, pure>>

\* ---------------------------------------------------------- the top level
\* What the top level of main.py sends when an exception reaches it: main()
\* has no except clause, `contextlib.suppress(KeyboardInterrupt)` lets every
\* other exception end the process with its traceback.
TopLevelReports == <<>>

\* main.py, lines 225-227: the exception leaves asyncio.run(main()).
TopLevel ==
    /\ variant = "legacy" /\ pc \in {"crashed", "cancelled"}
    /\ sent' = sent \o TopLevelReports
    /\ pc' = "terminated"
    /\ UNCHANGED <<config, polled, escaped, loginsInFlight, callerLogin, aside>>

Next ==
    \/ CallerLogin \/ HeartbeatSend \/ HeartbeatFails \/ HeartbeatWake
    \/ TopLevel
    \/ ApiStart \/ SeleniumStart \/ LegacyStart \/ LegacyMainConfirm
    \/ ApiLoopTop \/ PageLoopTop
    \/ Login \/ AuthConfirm \/ AuthTokens \/ LegacyLogin \/ LegacyConfirm
    \/ ApiFetch \/ SeleniumFetch \/ LegacyFetch
    \/ SendEntry \/ NotifyUpstream \/ NotifyMalformed \/ NotifyLogin
    \/ Backoff \/ Sleep

Spec == Init /\ [][Next]_vars

\* The steps of the caller and of the poll loop. The event loop resumes a
\* coroutine once the sleep or the call it awaits is over, so a step of the
\* poll loop that stays possible is taken.
LoopNext ==
    \/ CallerLogin
    \/ ApiStart \/ SeleniumStart \/ LegacyStart \/ LegacyMainConfirm
    \/ ApiLoopTop \/ PageLoopTop
    \/ Login \/ AuthConfirm \/ AuthTokens \/ LegacyLogin \/ LegacyConfirm
    \/ ApiFetch \/ SeleniumFetch \/ LegacyFetch
    \/ SendEntry \/ NotifyUpstream \/ NotifyMalformed \/ NotifyLogin
    \/ Backoff \/ Sleep

LiveSpec == Spec /\ WF_vars(LoopNext)

\* ------------------------------------------- a fetch on a given payload
\* The rendered table that shows the locations of a list response: one row
\* per location, its date cell the literal when the date is null.
EquivalentTable(list) ==
    [i \in 1..Len(list) |->
        IF list[i].dataPrimaDisponibilitaResidenti = None THEN NO_SLOTS_TEXT
        ELSE "06/05/2024"]

\* A scraper is given one payload of the service.
FetchInit ==
    /\ variant = "api" /\ authKind = "manual" /\ pc = "pure"
    /\ input \in {<<r>> : r \in ListResponses}
    /\ Fresh

\* ApiScraper._scrape_availability() on the payload.
ApplyApiFetch ==
    /\ pc = "pure" /\ apiOut = <<>>
    /\ apiOut' = <<ApiScrapeAvailability(input[1])>>
    /\ UNCHANGED <<config, pc, polled, sent, escaped, loginsInFlight,
                   callerLogin, hb, beat, input, pageOut>>

\* SeleniumScraper._scrape_availability() on the page that shows the same
\* locations.
ApplyPageFetch ==
    /\ pc = "pure" /\ pageOut = <<>>
    /\ pageOut' = <<SeleniumScrapeAvailability(
                       <<EquivalentTable(input[1].list)>>)>>
    /\ UNCHANGED <<config, pc, polled, sent, escaped, loginsInFlight,
                   callerLogin, hb, beat, input, apiOut>>

FetchNext == ApplyApiFetch \/ ApplyPageFetch

FetchSpec == FetchInit /\ [][FetchNext]_vars

\* =================================================================== claims
\* The messages of `sent` that went to the chat c.
OnChat(c) == SelectSeq(sent, LAMBDA m : m.chat_id = c)

\* The chats availability results go to / notices go to, over the variants.
DataChats == {DATA_CHAT, LEGACY_CHAT}

\* A step of the poll loop: every step of the heartbeat task moves hb.
LoopStep == hb' = hb

\* Every call of a fetch on the list response r succeeds: the list call and
\* the detail call of every location with a date.
AllCallsSucceed(r) ==
    /\ r.status_code = HTTP_OK /\ r.decodable
    /\ \A i \in 1..Len(r.list) :
          r.list[i].dataPrimaDisponibilitaResidenti # None =>
             r.list[i].detail.status_code = HTTP_OK /\ r.list[i].detail.decodable

\* The poll loop is gone: an exception left it, or it was cancelled.
Dead == pc \in {"crashed", "cancelled", "terminated"}

\* The data messages among `sent`.
DataMessages == SelectSeq(sent, LAMBDA m : m.text = TXT_ENTRY)

\* The positions of the locations of a list that have a date, in payload order.
Dated(list) ==
    SelectSeq([i \in 1..Len(list) |-> i],
              LAMBDA i : list[i].dataPrimaDisponibilitaResidenti # None)

\* A first-available date that is present.
Present(date) == date # None /\ date # NO_SLOTS_TEXT

\* C1: in every poll loop, every message sent to the data channel carries a
\* record, and that record's first-available date is present (neither null
\* nor the literal of the table that means "no slots").
C1_FilterInvariant ==
    \A i \in 1..Len(sent) :
        (sent[i].chat_id \in DataChats \/ sent[i].text = TXT_ENTRY) =>
            /\ sent[i].text = TXT_ENTRY
            /\ Len(sent[i].entry) = 1
            /\ Present(sent[i].entry[1].first_available_date)

\* A cycle of the legacy loop whose table held a row without slots and a row
\* with a date, all messages sent.
C1_Witness ==
    /\ variant = "legacy" /\ pc = "sleep"
    /\ listed > eligible /\ eligible >= 1
    /\ Len(sent) = eligible

\* C2: in ApiScraper.check_availability a successful cycle without records
\* leaves the streak at 0, one with records raises it by one, and every data
\* message of the cycle is silent exactly when the streak, after the update,
\* is at least 20.
C2_StreakAndSilence ==
    [][LoopStep =>
       /\ (variant = "api" /\ pc = "fetch" /\ outcome' = "success") =>
             /\ Len(available') = 0 => notifications_counter' = 0
             /\ Len(available') >= 1 =>
                    notifications_counter' = notifications_counter + 1
       /\ (variant = "api" /\ pc = "send") =>
             /\ notifications_counter' = notifications_counter
             /\ \A i \in 1..Len(sent') :
                    sent'[i].disable_notification = (notifications_counter >= 20)
      ]_vars

\* The 20th available cycle in a row: its messages are silent.
C2_Witness ==
    /\ variant = "api" /\ pc = "sleep" /\ outcome = "success"
    /\ notifications_counter = 20
    /\ Len(sent) >= 1
    /\ \A i \in 1..Len(sent) : sent[i].disable_notification

\* C3: an upstream error (a non-success status) in the fetch of the API loop
\* has the response body saved, then one control-channel notice naming the
\* saved file sent and the session state set to LoggedOut; the loop then waits
\* the inter-cycle interval, and the next iteration calls the login before it
\* fetches again.
C3_UpstreamLogsOut ==
    [][LoopStep =>
       /\ (pc = "fetch" /\ raised' = "ResponseError") =>
             /\ pc' = "notify_upstream"
             /\ Len(saved') = 1 /\ saved'[1].data # <<>>
             /\ sent' = <<>> /\ logged_in' = logged_in
       /\ pc = "notify_upstream" =>
             /\ Len(sent') = 1
             /\ sent'[1].chat_id = CONTROL_CHAT
             /\ sent'[1].file = <<saved[1].path>>
             /\ logged_in /\ ~logged_in'
             /\ pc' = "sleep"
       /\ (pc = "sleep" /\ raised = "ResponseError") =>
             /\ waited' = 60 /\ pc' = "top" /\ ~logged_in'
       /\ (pc = "top" /\ raised = "ResponseError") => pc' = "login"
       /\ (prev' = "upstream" /\ fetched') => authCalled'
      ]_vars

\* The iteration after an upstream error has logged in again and fetched.
C3_Witness ==
    /\ variant = "api" /\ prev = "upstream"
    /\ began = "LoggedOut" /\ authCalled /\ fetched

\* C4 (as claimed): in every poll loop a failed login has exactly one notice
\* ("could not log in, retrying") sent before the 5-minute backoff, and no
\* fetch is attempted in that iteration.
C4_LoginFailureNotice ==
    pc = "backoff" =>
        /\ Len(sent) = 1
        /\ sent[1].text = TXT_LOGIN
        /\ sent[1].chat_id \in {CONTROL_CHAT, LEGACY_CHAT}
        /\ ~fetched

\* C5: when the authenticator raises NoSuchElementException during the login
\* of the API or the page variant, login returns False without raising, the
\* session state stays LoggedOut and the installed cookie and CSRF header are
\* what they were.
C5_FailedLoginKeepsState ==
    [][(/\ variant \in {"api", "selenium"}
        /\ pc \in {"login", "auth_confirm", "auth_tokens"}
        /\ raised' = "NoSuchElementException") =>
            /\ pc' = "notify_login"
            /\ escaped' = "none"
            /\ ~logged_in /\ ~logged_in'
            /\ cookie' = cookie /\ csrf' = csrf
      ]_vars

\* A login fails while credentials of an earlier login are installed.
C5_Witness ==
    /\ variant = "api" /\ pc = "notify_login"
    /\ raised = "NoSuchElementException"
    /\ cookie # 0 /\ csrf # 0

\* C6: an iteration that begins LoggedIn goes to the fetch with the session
\* state unchanged and without calling the authenticator; the authenticator
\* is called only in iterations that begin LoggedOut.
C6_LoggedInSkipsLogin ==
    /\ authCalled => began = "LoggedOut"
    /\ pc \in {"login", "auth_confirm", "auth_tokens", "notify_login", "backoff"}
          => began = "LoggedOut"
    /\ (began = "LoggedIn" /\ pc = "fetch") => logged_in

\* An iteration that began LoggedIn fetched without a login.
C6_Witness ==
    /\ began = "LoggedIn" /\ fetched /\ ~authCalled
    /\ pc = "sleep" /\ openDrivers = 0

\* C7 (as claimed): in either DataSource variant, a cycle whose fetch met no
\* classified error ends with exactly one data-channel message per eligible
\* record of the response, each carrying the throttler's flag of the cycle.
C7_OneMessagePerRecord ==
    (/\ variant \in {"api", "selenium"}
     /\ fetched /\ pc \in {"sleep", "crashed"}
     /\ raised \notin {"ResponseError", "JSONDecodeError",
                       "NoSuchElementException"}) =>
        /\ Len(OnChat(DATA_CHAT)) = eligible
        /\ Len(sent) = eligible
        /\ \A i \in 1..Len(sent) :
              sent[i].disable_notification = (notifications_counter >= 20)

\* C8: a malformed response (undecodable JSON, missing table) has exactly one
\* control-channel notice and no data-channel message sent, leaves the session
\* state and the credentials as they were, and the loop waits the inter-cycle
\* interval and comes back to the top of the loop.
C8_MalformedKeepsSession ==
    [][LoopStep =>
       /\ (/\ variant \in {"api", "selenium"} /\ pc = "fetch"
           /\ raised' = (IF variant = "api" THEN "JSONDecodeError"
                         ELSE "NoSuchElementException")) =>
             /\ pc' = "notify_malformed"
             /\ sent' = <<>>
             /\ logged_in' = logged_in /\ cookie' = cookie /\ csrf' = csrf
       /\ pc = "notify_malformed" =>
             /\ Len(sent') = 1
             /\ sent'[1].chat_id = CONTROL_CHAT
             /\ sent'[1].text \in {TXT_DECODE, TXT_TABLE}
             /\ logged_in' = logged_in /\ cookie' = cookie /\ csrf' = csrf
             /\ pc' = "sleep"
       /\ (pc = "sleep" /\ outcome = "malformed") =>
             /\ waited' = 60 /\ pc' = "top"
             /\ sent' = sent
             /\ logged_in' = logged_in /\ cookie' = cookie /\ csrf' = csrf
       /\ (pc = "top" /\ outcome = "malformed" /\ variant = "api") =>
             pc' = "fetch"
      ]_vars

\* The cycle after a malformed response fetched again.
C8_Witness ==
    /\ prev = "malformed" /\ fetched /\ began = "LoggedIn"

\* C9 (as claimed): in neither DataSource variant does one of the three
\* classified errors leave check_availability.
C9_ClassifiedNeverEscape ==
    variant \in {"api", "selenium"} =>
        escaped \notin {"NoSuchElementException", "ResponseError",
                        "JSONDecodeError"}

\* C10 (as claimed): outside a running Authenticator.login no browser session
\* that a login opened is still open.
C10_BrowserReleased ==
    pc \notin {"auth_confirm", "auth_tokens"} => openDrivers = 0

\* C11: the heartbeat task is independent of the poll loop. Every message it
\* sends is silent and goes to the chat the task was started with (never the
\* data chat of a scraper); a message is sent only by a task that was due and
\* had sent none since it last woke, and sends it to sleep (one message per
\* interval); wherever the poll loop is suspended (the waits of a login, a
\* send, the login-failure backoff, the inter-cycle wait, logged in or not)
\* the heartbeat task can take its next step; a heartbeat step that goes
\* through changes nothing of the poll loop, and a step of the poll loop
\* changes nothing of the heartbeat task.
C11_HeartbeatIndependent ==
    /\ [](\A i \in 1..Len(beat) :
            /\ beat[i].disable_notification
            /\ beat[i].text = TXT_HEARTBEAT
            /\ beat[i].chat_id = HeartbeatChat
            /\ beat[i].chat_id # DATA_CHAT)
    /\ [](TasksRunning /\ PollSuspended
            => ENABLED (HeartbeatSend \/ HeartbeatWake))
    /\ [][beat' # beat /\ beat' # <<>>
            => beat = <<>> /\ hb = "send" /\ hb' = "sleep"]_vars
    /\ [][hb' # hb /\ hb' \in {"send", "sleep"} /\ hb # "off"
            => UNCHANGED <<pc, polled, sent, escaped, loginsInFlight>>]_vars
    /\ [][LoopStep => UNCHANGED beat]_vars

\* A heartbeat went out and its task sleeps while the poll loop, logged out,
\* sits in the login-failure backoff.
C11_Witness ==
    /\ pc = "backoff" /\ ~logged_in
    /\ hb = "sleep" /\ beat = <<HeartbeatMessage>>

\* C12 (as claimed): once a failure that is none of the classified errors has
\* left the poll loop or the heartbeat task and ended the process, the sink
\* has received exactly one message that embeds it.
C12_FailureReportedOnce ==
    (/\ pc = "terminated"
     /\ escaped \notin {"NoSuchElementException", "ResponseError",
                         "JSONDecodeError"}) =>
        Cardinality({i \in 1..Len(sent) : sent[i].text = escaped}) = 1

\* C13 (as claimed): on a payload whose calls all succeed and the page that
\* shows the same locations, the REST fetch and the rendered-page fetch both
\* succeed and return the same number of records with the same location and
\* address.
C13_VariantsAgree ==
    (apiOut # <<>> /\ pageOut # <<>> /\ AllCallsSucceed(input[1])) =>
        /\ apiOut[1].exc = "none" /\ pageOut[1].exc = "none"
        /\ Len(apiOut[1].entries) = Len(pageOut[1].entries)
        /\ \A k \in 1..Len(apiOut[1].entries) :
              /\ apiOut[1].entries[k].location = pageOut[1].entries[k].location
              /\ apiOut[1].entries[k].address = pageOut[1].entries[k].address

\* C14: on a payload whose calls all succeed the REST fetch returns one record
\* per location with a non-null date and none for the others, in payload
\* order, each with the date part of that location's date and with exactly the
\* slots of that location's detail response, sorted ascending by timestamp.
C14_OneRecordPerDatedLocation ==
    (apiOut # <<>> /\ AllCallsSucceed(input[1])) =>
        LET list == input[1].list
            out == apiOut[1]
        IN /\ out.exc = "none"
           /\ Len(out.entries) = Len(Dated(list))
           /\ \A k \in 1..Len(out.entries) :
                 LET e == out.entries[k]
                     elenco == list[Dated(list)[k]].detail.elenco
                 IN /\ e.location = Dated(list)[k]
                    /\ e.first_available_date = "2024-05-06"
                    /\ Len(e.slots) = Len(elenco)
                    /\ {e.slots[j] : j \in 1..Len(e.slots)} =
                         {<<elenco[j].objectKey[2], elenco[j].totAppuntamenti>> :
                            j \in 1..Len(elenco)}
                    /\ \A a, b \in 1..Len(e.slots) :
                          a < b => e.slots[a][1] <= e.slots[b][1]

\* Two locations, the first without a date, the second with two slots out of
\* chronological order: one record, its slots in order.
C14_Witness ==
    /\ input # <<>> /\ apiOut # <<>>
    /\ Len(input[1].list) = 2
    /\ input[1].list[1].dataPrimaDisponibilitaResidenti = None
    /\ input[1].list[2].detail.elenco = <<ElencoObj(2), ElencoObj(1)>>
    /\ Len(apiOut[1].entries) = 1
    /\ apiOut[1].entries[1].slots = <<(<<1, 1>>), (<<2, 1>>)>>

\* C15 (as claimed): in the API loop the data messages of a cycle that comes
\* after one or more cycles without a data message (cycles without records,
\* cycles ended by an upstream or malformed-response error, login-failure
\* backoffs) are never silent.
C15_LoudAfterAnyQuiet ==
    (variant = "api" /\ quiet \in {"empty", "failed"}) =>
        \A i \in 1..Len(DataMessages) : ~DataMessages[i].disable_notification

\* C15 (amended): in the API loop the data messages of a cycle that comes
\* after a period without data messages in which at least one fetch succeeded
\* with zero records are never silent, and the streak of that cycle is 1.
C15_LoudAfterEmptyCycle ==
    (variant = "api" /\ quiet = "empty" /\ Len(DataMessages) >= 1) =>
        /\ notifications_counter = 1
        /\ \A i \in 1..Len(DataMessages) : ~DataMessages[i].disable_notification

\* Availability shows up right after a failed cycle that followed a cycle
\* without records.
C15_Witness ==
    /\ variant = "api" /\ quiet = "empty" /\ prev \in {"upstream", "malformed"}
    /\ pc = "sleep" /\ Len(DataMessages) >= 1

\* C16: a fetch runs from its first call to its last inside one step of the
\* poll loop, so no two overlap; at most one login() is entered and not yet
\* left at any time; the loop is about to fetch, or fetches, only when no
\* login is in flight, also while the login waits for the confirmation; and
\* no step of the heartbeat task starts a fetch or a login.
C16_OneAtATime ==
    /\ [](loginsInFlight \in {0, 1})
    /\ [](pc = "fetch" => loginsInFlight = 0)
    /\ [][fetched' /\ ~fetched
            => LoopStep /\ pc = "fetch" /\ loginsInFlight = 0
               /\ loginsInFlight' = 0]_vars
    /\ [][loginsInFlight' = loginsInFlight + 1
            => (LoopStep \/ hb = "off") /\ pc \in {"login", "start"}]_vars
    /\ [][~LoopStep /\ hb # "off" /\ pc' # "cancelled"
            => UNCHANGED <<pc, fetched, authCalled, loginsInFlight>>]_vars

\* A heartbeat went out while the login of the API loop waits for the human
\* confirmation.
C16_Witness ==
    /\ variant = "api" /\ pc = "auth_confirm" /\ loginsInFlight = 1
    /\ hb = "sleep" /\ beat # <<>>

\* C17: in the API loop, once the list call or a detail call of a cycle
\* answered with a non-success status, the cycle holds no record and sends no
\* data message, the response saved is the one of the failing call and that
\* call is the last one issued (the list call with no detail call after it, or
\* the last detail call), the cycle counts as an upstream error, and from the
\* notice on the session is LoggedOut.
C17_AbortOnFirstError ==
    (variant = "api" /\ raised = "ResponseError") =>
        /\ outcome = "upstream"
        /\ available = <<>>
        /\ DataMessages = <<>>
        /\ Len(saved) = 1
        /\ \/ saved[1].data = <<"list">> /\ detailCalls = <<>>
           \/ /\ Len(detailCalls) >= 1
              /\ saved[1].data = <<"detail", detailCalls[Len(detailCalls)]>>
        /\ pc \in {"notify_upstream", "sleep", "top"}
        /\ pc # "notify_upstream" => ~logged_in

\* The second detail call of a cycle failed after the first succeeded: nothing
\* was sent for the first location, the session is LoggedOut.
C17_Witness ==
    /\ variant = "api" /\ raised = "ResponseError" /\ pc = "sleep"
    /\ detailCalls = <<1, 2>>
    /\ DataMessages = <<>> /\ ~logged_in

\* C18 (as claimed, for ApiScraper.check_availability): the first iteration of
\* the loop begins LoggedIn exactly when the login the caller made before the
\* loop succeeded, and after a failed one the login is called before the first
\* fetch.
C18_StartsFromCallerLogin ==
    (variant = "api" /\ began # "none" /\ prev = "none"
       /\ callerLogin # "none") =>
        /\ began = "LoggedIn" <=> callerLogin = "ok"
        /\ (callerLogin = "failed" /\ fetched) => authCalled

\* C19: the poll loop has no terminal state. An iteration is left only
\* through the inter-cycle wait or the login-failure backoff, whose lengths
\* are the constants 60 and 300 whatever happened before; unless an exception
\* leaves the loop or the loop is cancelled, the top of the loop is reached
\* again and again; and if from some point on no login fails, fetches go on
\* being attempted.
C19_LoopGoesOn ==
    /\ [][LoopStep /\ pc = "sleep"
            => waited' = INTER_CYCLE_WAIT /\ pc' = "top"]_vars
    /\ [][LoopStep /\ pc = "backoff"
            => waited' = LOGIN_BACKOFF /\ pc' = "top"]_vars
    /\ [][pc' = "top" /\ pc # "top" /\ began # "none"
            => pc \in {"sleep", "backoff"}]_vars
    /\ []<>(pc = "top" \/ Dead)
    /\ (<>[](outcome # "login_failed")) => []<>(fetched \/ Dead)

\* The loop is back at its top after a login-failure backoff that followed an
\* upstream error.
C19_Witness ==
    /\ variant = "api" /\ pc = "top" /\ waited = LOGIN_BACKOFF
    /\ outcome = "login_failed" /\ prev = "upstream"

\* C20 (as claimed): availability records go only to the chat of the
\* availability results, and no notice and no heartbeat goes to that chat.
C20_ChannelsSeparate ==
    /\ \A i \in 1..Len(sent) :
          sent[i].chat_id = DataChat <=> sent[i].text = TXT_ENTRY
    /\ \A i \in 1..Len(beat) : beat[i].chat_id # DataChat

\* C21: in the API loop only a fetch that succeeds changes the streak: every
\* other step of the loop (the login and its failure, the notices of an
\* upstream error or a malformed response, the waits, the sends) leaves it as
\* it was, and so does a fetch that ends in one of the two errors; the first
\* availability after an upstream error and the login that follows it raises
\* the streak from the value it had before the error.
C21_StreakFrame ==
    /\ [][(variant = "api" /\ LoopStep
             /\ notifications_counter' # notifications_counter)
            => pc = "fetch" /\ outcome' = "success"]_vars
    /\ [][(variant = "api" /\ LoopStep /\ pc = "fetch"
             /\ outcome' \in {"upstream", "malformed"})
            => notifications_counter' = notifications_counter]_vars
    /\ [][(variant = "api" /\ LoopStep /\ pc = "fetch" /\ prev = "upstream"
             /\ outcome' = "success" /\ Len(available') >= 1)
            => notifications_counter' = notifications_counter + 1]_vars

\* A streak of at least 2 that went through an upstream error and the login
\* after it, and was raised again by the next cycle.
C21_Witness ==
    /\ variant = "api" /\ prev = "upstream" /\ authCalled
    /\ outcome = "success" /\ pc = "sleep"
    /\ notifications_counter >= 3

\* C22: in ApiScraper the cookie and the CSRF header installed are always of
\* the same bundle (or both absent); they change only together, to the two
\* parts of one bundle, in the step in which a login succeeds, before the
\* fetch that follows it; a step in which a login fails changes neither.
C22_OneBundle ==
    /\ [](variant = "api" => cookie = csrf)
    /\ [][(variant = "api" /\ (cookie' # cookie \/ csrf' # csrf))
            => /\ cookie' = csrf' /\ cookie' \in Bundles
               /\ \/ pc' = "fetch" /\ logged_in' /\ ~fetched'
                  \/ pc = "caller" /\ callerLogin' = "ok"]_vars
    /\ [][(variant = "api" /\ LoopStep /\ raised' = "NoSuchElementException"
             /\ raised # raised')
            => UNCHANGED creds]_vars

\* A fetch issued with the second bundle, installed by a login that succeeded
\* in the iteration after a failed one.
C22_Witness ==
    /\ variant = "api" /\ authKind = "interactive"
    /\ prev = "login_failed" /\ authCalled /\ fetched
    /\ cookie = 2 /\ csrf = 2

====
